---------------------------- MODULE Spec2Model ----------------------------
(***************************************************************************)
(* Insurance-claims mail pipeline: the poll loop of mail_monitor.py        *)
(* (mailbox cursor, ingestion, work queue, queue processor) and the        *)
(* fulfillment engine of fulfillment_processor.py.                         *)
(*                                                                         *)
(* Text handled by the engine (backend replies, missing-items text) is a   *)
(* sequence of one-character strings, so that the regular expressions and  *)
(* substring tests of the source are evaluated character by character.     *)
(***************************************************************************)
EXTENDS Integers, Sequences, FiniteSets, TLC

(***************************************************************************)
(* Bounds of the model.                                                    *)
(***************************************************************************)
\* most messages the mailbox ever holds
MaxMailbox == 2
\* most attachments of one message
MaxAttachments == 1
\* most failures of external collaborators in one run
MaxFaults == 2
\* most messages fetched and given a claim id in one run
MaxClaims == 2
\* most chunks a backend reply is assembled from
MaxChunks == 3
\* most documents in db.fulfillment in a run of the fulfillment API
MaxRecords == 3
\* most attachment paths of the email_data a cleanup is run for
MaxPaths == 2

(***************************************************************************)
(* Strings as character sequences.                                         *)
(***************************************************************************)
STATUS_MARKER ==
    <<"F", "U", "L", "F", "I", "L", "L", "M", "E", "N", "T", "_", "S", "T", "A", "T", "U", "S", ":">>
COMPLETED ==
    <<"C", "O", "M", "P", "L", "E", "T", "E", "D">>
PENDING ==
    <<"P", "E", "N", "D", "I", "N", "G">>
MISSING_MARKER ==
    <<"M", "I", "S", "S", "I", "N", "G", "_", "I", "T", "E", "M", "S", ":">>
DEFAULT_MISSING ==
    <<"-", " ", "R", "e", "q", "u", "i", "r", "e", "d", " ", "f", "u", "l", "f", "i", "l", "l", "m", "e", "n", "t", " ", "i", "t", "e", "m", "s", " ", "m", "i", "s", "s", "i", "n", "g">>

reason_keywords ==
    { <<"r", "e", "a", "s", "o", "n">>,
      <<"d", "e", "s", "c", "r", "i", "p", "t", "i", "o", "n">>,
      <<"w", "h", "a", "t", " ", "h", "a", "p", "p", "e", "n", "e", "d">>,
      <<"i", "n", "c", "i", "d", "e", "n", "t">>,
      <<"c", "a", "u", "s", "e">>,
      <<"e", "x", "p", "l", "a", "i", "n">> }
amount_keywords ==
    { <<"a", "m", "o", "u", "n", "t">>,
      <<"d", "o", "l", "l", "a", "r">>,
      <<"c", "o", "s", "t">>,
      <<"m", "o", "n", "e", "y">>,
      <<"p", "r", "i", "c", "e">>,
      <<"v", "a", "l", "u", "e">>,
      <<"s", "u", "m">>,
      <<"t", "o", "t", "a", "l">>,
      <<"c", "l", "a", "i", "m">>,
      <<"d", "a", "m", "a", "g", "e">>,
      <<"b", "i", "l", "l">>,
      <<"s", "p", "e", "c", "i", "f", "i", "c", " ", "c", "l", "a", "i", "m", " ", "a", "m", "o", "u", "n", "t">>,
      <<"c", "u", "r", "r", "e", "n", "c", "y">> }
proof_keywords ==
    { <<"p", "r", "o", "o", "f">>,
      <<"d", "o", "c", "u", "m", "e", "n", "t">>,
      <<"a", "t", "t", "a", "c", "h", "m", "e", "n", "t">>,
      <<"e", "v", "i", "d", "e", "n", "c", "e">>,
      <<"s", "u", "p", "p", "o", "r", "t">>,
      <<"b", "i", "l", "l">>,
      <<"r", "e", "c", "e", "i", "p", "t">>,
      <<"p", "h", "o", "t", "o">>,
      <<"p", "o", "l", "i", "c", "e", " ", "r", "e", "p", "o", "r", "t">>,
      <<"m", "e", "d", "i", "c", "a", "l">> }

\* str.lower() on the letters that occur in the texts of the model
UpperCase == <<"A", "B", "C", "D", "E", "F", "G", "H", "I", "J", "K", "L", "M",
               "N", "O", "P", "Q", "R", "S", "T", "U", "V", "W", "X", "Y", "Z">>
LowerCase == <<"a", "b", "c", "d", "e", "f", "g", "h", "i", "j", "k", "l", "m",
               "n", "o", "p", "q", "r", "s", "t", "u", "v", "w", "x", "y", "z">>

LowerChar(c) ==
    IF \E k \in 1..26 : UpperCase[k] = c
    THEN LowerCase[CHOOSE k \in 1..26 : UpperCase[k] = c]
    ELSE c

Lower(s) == [k \in 1..Len(s) |-> LowerChar(s[k])]

\* the characters the regex class \s and str.strip() treat as white space
IsSpace(c) == c \in {" ", "\n", "\t", "\r"}

\* pattern p occurs in s at index i
MatchAt(s, p, i) ==
    /\ i >= 1
    /\ i + Len(p) - 1 <= Len(s)
    /\ \A k \in 1..Len(p) : s[i + k - 1] = p[k]

\* "p in s"
Contains(s, p) == \E i \in 1..(Len(s) + 1) : MatchAt(s, p, i)

\* str.startswith
StartsWith(s, p) == MatchAt(s, p, 1)

\* least index >= i that is past the end or holds no white space (greedy \s*)
SkipSpace(s, i) ==
    CHOOSE j \in i..(Len(s) + 1) :
        /\ (j = Len(s) + 1 \/ ~IsSpace(s[j]))
        /\ \A k \in i..(j - 1) : IsSpace(s[k])

\* str.strip()
Strip(s) ==
    IF \A k \in 1..Len(s) : IsSpace(s[k])
    THEN << >>
    ELSE LET a == CHOOSE i \in 1..Len(s) :
                      ~IsSpace(s[i]) /\ \A k \in 1..(i - 1) : IsSpace(s[k])
             b == CHOOSE j \in 1..Len(s) :
                      ~IsSpace(s[j]) /\ \A k \in (j + 1)..Len(s) : IsSpace(s[k])
         IN  SubSeq(s, a, b)

\* str.split('\n'): the pieces between the newlines, empty pieces kept
RECURSIVE SplitLines(_)
SplitLines(s) ==
    IF \A k \in 1..Len(s) : s[k] # "\n"
    THEN << s >>
    ELSE LET n == CHOOSE i \in 1..Len(s) :
                      s[i] = "\n" /\ \A k \in 1..(i - 1) : s[k] # "\n"
         IN  << SubSeq(s, 1, n - 1) >> \o SplitLines(SubSeq(s, n + 1, Len(s)))

\* '\n'.join(lines)
RECURSIVE JoinLines(_)
JoinLines(lines) ==
    IF lines = << >> THEN << >>
    ELSE IF Len(lines) = 1 THEN lines[1]
    ELSE lines[1] \o << "\n" >> \o JoinLines(Tail(lines))

\* concatenation of a sequence of strings
RECURSIVE Flatten(_)
Flatten(ss) == IF ss = << >> THEN << >> ELSE ss[1] \o Flatten(Tail(ss))

(***************************************************************************)
(* fulfillment_processor.py: the assessment of one backend reply.          *)
(***************************************************************************)
\* the satisfied-items count at which the failsafe overrides PENDING
FAILSAFE_MIN_SATISFIED == 4

\* any(keyword in missing_lower for keyword in keywords)
AnyKeywordIn(keywords, text) == \E kw \in keywords : Contains(text, kw)

\* the regex class [\d,]
IsNumChar(c) == c \in { "0", "1", "2", "3", "4", "5", "6", "7", "8", "9", "," }

\* monetary_patterns but the last: a label, the character the pattern allows
\* once after it ("" when none), then \s*[\d,]+
monetary_patterns ==
    { << << "$" >>, "" >>,
      << << "r", "s" >>, "." >>,
      << << "i", "n", "r" >>, "" >>,
      << << "u", "s", "d" >>, "" >>,
      << << "a", "m", "o", "u", "n", "t" >>, ":" >>,
      << << "c", "o", "s", "t" >>, ":" >>,
      << << "c", "l", "a", "i", "m" >>, ":" >>,
      << << "d", "a", "m", "a", "g", "e" >>, ":" >>,
      << << "t", "o", "t", "a", "l" >>, ":" >> }

\* one of those patterns matches in s at index i
LabelledNumberAt(s, label, optional, i) ==
    /\ MatchAt(s, label, i)
    /\ \E j \in { i + Len(label) }
                \cup (IF optional # "" /\ MatchAt(s, << optional >>, i + Len(label))
                      THEN { i + Len(label) + 1 } ELSE { }) :
         LET k == SkipSpace(s, j)
         IN  k <= Len(s) /\ IsNumChar(s[k])

\* the last pattern, [\d,]{3,}, matches in s at index i
GroupedNumberAt(s, i) ==
    /\ i + 2 <= Len(s)
    /\ \A k \in i..(i + 2) : IsNumChar(s[k])

\* has_monetary_value as the loop over monetary_patterns leaves it
has_monetary_value(email_content) ==
    \E i \in 1..Len(email_content) :
      \/ \E pattern \in monetary_patterns :
            LabelledNumberAt(email_content, pattern[1], pattern[2], i)
      \/ GroupedNumberAt(email_content, i)

\* a version that credits the documents without looking at attachment_count
identify_without_count(email_data, missing_items_text) ==
    LET missing_lower == Lower(missing_items_text)
    IN  << "User email address provided" >>
        \o (IF ~AnyKeywordIn(reason_keywords, missing_lower)
            THEN << "Reason for claim provided" >> ELSE << >>)
        \o (IF ~AnyKeywordIn(amount_keywords, missing_lower)
            THEN << "Claim amount specified" >> ELSE << >>)
        \o (IF ~AnyKeywordIn(proof_keywords, missing_lower)
            THEN << "Supporting documents provided" >>
            ELSE << "Some documents provided" >>)

\* identify_satisfied_requirements: the satisfied items, in the order appended.
\* has_monetary_value is computed from the body and read by no later statement.
identify_satisfied_requirements(email_data, missing_items_text) ==
    LET missing_lower == Lower(missing_items_text)
        attachment_count == email_data.attachment_count
        monetary == has_monetary_value(Lower(email_data.content))
    IN  << "User email address provided" >>
        \o (IF ~AnyKeywordIn(reason_keywords, missing_lower)
            THEN << "Reason for claim provided" >> ELSE << >>)
        \o (IF ~AnyKeywordIn(amount_keywords, missing_lower)
            THEN << "Claim amount specified" >> ELSE << >>)
        \o (IF attachment_count > 0
            THEN IF ~AnyKeywordIn(proof_keywords, missing_lower)
                 THEN << "Supporting documents provided" >>
                 ELSE << "Some documents provided" >>
            ELSE << >>)

\* re.search(r'FULFILLMENT_STATUS:\s*(COMPLETED|PENDING)', s) matches at i
StatusMatchAt(s, i) ==
    /\ MatchAt(s, STATUS_MARKER, i)
    /\ LET j == SkipSpace(s, i + Len(STATUS_MARKER))
       IN  MatchAt(s, COMPLETED, j) \/ MatchAt(s, PENDING, j)

\* group(1) of the leftmost match, "none" when the search finds nothing
StatusMatch(s) ==
    IF \E i \in 1..Len(s) : StatusMatchAt(s, i)
    THEN LET i == CHOOSE a \in 1..Len(s) :
                      StatusMatchAt(s, a) /\ \A b \in 1..(a - 1) : ~StatusMatchAt(s, b)
             j == SkipSpace(s, i + Len(STATUS_MARKER))
         IN  IF MatchAt(s, COMPLETED, j) THEN "COMPLETED" ELSE "PENDING"
    ELSE "none"

\* the lookahead (?=\n\n|FULFILLMENT_STATUS:|$) holds at index q
MissingEndAt(s, q) ==
    \/ MatchAt(s, << "\n", "\n" >>, q)
    \/ MatchAt(s, STATUS_MARKER, q)
    \/ q = Len(s) + 1
    \/ (q = Len(s) /\ s[q] = "\n")

\* re.search(r'MISSING_ITEMS:\s*(.*?)(?=\n\n|FULFILLMENT_STATUS:|$)', s, re.DOTALL)
HasMissingMatch(s) == \E i \in 1..Len(s) : MatchAt(s, MISSING_MARKER, i)

\* group(1) of that match: from the end of the white space after the leftmost
\* marker, as short as the lookahead allows
MissingGroup(s) ==
    LET i == CHOOSE a \in 1..Len(s) :
                 MatchAt(s, MISSING_MARKER, a)
                 /\ \A b \in 1..(a - 1) : ~MatchAt(s, MISSING_MARKER, b)
        p == SkipSpace(s, i + Len(MISSING_MARKER))
        q == CHOOSE a \in p..(Len(s) + 1) :
                 MissingEndAt(s, a) /\ \A b \in p..(a - 1) : ~MissingEndAt(s, b)
    IN  SubSeq(s, p, q - 1)

\* the loop over lines: strip, put "- " before a line that has no bullet,
\* drop the empty lines
RECURSIVE FormatLines(_)
FormatLines(lines) ==
    IF lines = << >> THEN << >>
    ELSE LET line == Strip(lines[1])
         IN  (IF line = << >> THEN << >>
              ELSE IF StartsWith(line, << "-" >>) THEN << line >>
              ELSE << << "-", " " >> \o line >>)
             \o FormatLines(Tail(lines))

\* missing_items as computed on the PENDING branch
MissingItemsOf(s) ==
    IF HasMissingMatch(s)
    THEN JoinLines(FormatLines(SplitLines(Strip(MissingGroup(s)))))
    ELSE DEFAULT_MISSING

\* the override switched off
FailsafeNever(satisfied_items, missing_items) == FALSE

\* an override that three satisfied items would set off
FailsafeAtThree(satisfied_items, missing_items) ==
    /\ Len(satisfied_items) >= FAILSAFE_MIN_SATISFIED - 1
    /\ \/ missing_items = << >>
       \/ Strip(missing_items) = << >>
       \/ missing_items = DEFAULT_MISSING

\* the condition of the failsafe override
Failsafe(satisfied_items, missing_items) ==
    /\ Len(satisfied_items) >= FAILSAFE_MIN_SATISFIED
    /\ \/ missing_items = << >>
       \/ Strip(missing_items) = << >>
       \/ missing_items = DEFAULT_MISSING

\* parse_fulfillment_response(llm_response, email_data): the returned dict.
\* email_content is kept as the two texts the template is filled with.
parse_fulfillment_response(llm_response, email_data) ==
    LET status_match == StatusMatch(llm_response)
        status0 == IF status_match = "none" THEN "PENDING" ELSE status_match
        missing0 == IF status0 = "PENDING" THEN MissingItemsOf(llm_response) ELSE << >>
        satisfied0 == identify_satisfied_requirements(email_data, missing0)
        failsafe == status0 = "PENDING" /\ Failsafe(satisfied0, missing0)
        status == IF failsafe THEN "COMPLETED" ELSE status0
        missing_items == IF failsafe THEN << >> ELSE missing0
        satisfied_items ==
            IF status0 = "COMPLETED"
            THEN << "User email address provided", "Reason for claim provided",
                    "Claim amount specified", "Supporting documents provided" >>
            ELSE IF failsafe THEN << >> ELSE satisfied0
    IN  [ status |-> status,
          missing_items |-> missing_items,
          satisfied_items |-> satisfied_items,
          email_content |-> IF status = "PENDING"
                            THEN [ satisfied_items |-> satisfied_items,
                                   missing_items |-> missing_items ]
                            ELSE [ satisfied_items |-> << >>, missing_items |-> << >> ] ]

(***************************************************************************)
(* Backend replies the model draws from: up to MaxChunks chunks in a row.  *)
(***************************************************************************)
CHUNK_STATUS_COMPLETED ==
    <<"F", "U", "L", "F", "I", "L", "L", "M", "E", "N", "T", "_", "S", "T", "A", "T", "U", "S", ":", " ", "C", "O", "M", "P", "L", "E", "T", "E", "D">>
CHUNK_STATUS_PENDING ==
    <<"F", "U", "L", "F", "I", "L", "L", "M", "E", "N", "T", "_", "S", "T", "A", "T", "U", "S", ":", " ", "P", "E", "N", "D", "I", "N", "G">>
CHUNK_MISSING ==
    <<"M", "I", "S", "S", "I", "N", "G", "_", "I", "T", "E", "M", "S", ":">>
CHUNK_NEWLINE ==
    <<"\n">>
CHUNK_AMOUNT ==
    <<"-", " ", "C", "l", "a", "i", "m", " ", "a", "m", "o", "u", "n", "t">>
CHUNK_RECEIPT ==
    <<"r", "e", "c", "e", "i", "p", "t">>
CHUNK_NOISE ==
    <<"U", "n", "c", "l", "e", "a", "r">>

\* bodies of the emails assessed
BODY_DOLLAR ==
    <<"$", "2", "5", "0", "0">>
BODY_RUPEES ==
    <<"R", "s", ".", " ", "2", "5", ",", "0", "0", "0">>
BODY_PLAIN ==
    <<"M", "y", " ", "c", "a", "r", " ", "w", "a", "s", " ", "h", "i", "t">>

EmailBodies == { BODY_DOLLAR, BODY_RUPEES, BODY_PLAIN }

Chunks ==
    { CHUNK_STATUS_COMPLETED, CHUNK_STATUS_PENDING, CHUNK_MISSING, CHUNK_NEWLINE,
      CHUNK_AMOUNT, CHUNK_RECEIPT, CHUNK_NOISE }

Replies ==
    { Flatten(cs) : cs \in UNION { [1..n -> Chunks] : n \in 1..MaxChunks } }

\* the replies the poll loop's fulfillment step draws from: a COMPLETED reply,
\* a PENDING reply with one missing item, and a reply with no marker at all
PipelineReplies ==
    { CHUNK_STATUS_COMPLETED,
      CHUNK_STATUS_PENDING \o CHUNK_NEWLINE \o CHUNK_MISSING \o CHUNK_NEWLINE \o CHUNK_AMOUNT,
      CHUNK_NOISE }

(***************************************************************************)
(* fulfillment_processor.py: the email filter.                             *)
(***************************************************************************)
\* confidence of the keyword check
FALLBACK_CONFIDENCE == 30
\* confidence of the text reading of a reply without a JSON span
PARSE_FALLBACK_CONFIDENCE == 50
\* keyword_count from which the keyword check says insurance
MIN_KEYWORDS == 2
\* confidence of the replies of the model that state one
REPLY_CONFIDENCE == 90

filter_keywords ==
    { << "t", "r", "u", "e" >>,
      << "y", "e", "s" >>,
      << "i", "n", "s", "u", "r", "a", "n", "c", "e" >>,
      << "c", "l", "a", "i", "m" >> }

insurance_keywords ==
    { << "c", "l", "a", "i", "m" >>,
      << "i", "n", "s", "u", "r", "a", "n", "c", "e" >>,
      << "p", "o", "l", "i", "c", "y" >>,
      << "c", "o", "v", "e", "r", "a", "g", "e" >>,
      << "d", "a", "m", "a", "g", "e" >>,
      << "a", "c", "c", "i", "d", "e", "n", "t" >> }

auto_words == { << "a", "u", "t", "o" >>, << "c", "a", "r" >> }

health_words ==
    { << "h", "e", "a", "l", "t", "h" >>, << "m", "e", "d", "i", "c", "a", "l" >> }

property_words ==
    { << "h", "o", "m", "e" >>, << "p", "r", "o", "p", "e", "r", "t", "y" >> }

\* the members of the JSON objects the replies of the model hold
PAIR_TRUE ==
    <<"\"", "i", "s", "_", "i", "n", "s", "u", "r", "a", "n", "c", "e", "\"", ":", "t", "r", "u", "e">>
PAIR_FALSE ==
    <<"\"", "i", "s", "_", "i", "n", "s", "u", "r", "a", "n", "c", "e", "\"", ":", "f", "a", "l", "s", "e">>
PAIR_STR ==
    <<"\"", "i", "s", "_", "i", "n", "s", "u", "r", "a", "n", "c", "e", "\"", ":", "\"", "f", "a", "l", "s", "e", "\"">>
PAIR_CONFIDENCE ==
    <<"\"", "c", "o", "n", "f", "i", "d", "e", "n", "c", "e", "\"", ":", "9", "0">>
PAIR_REASONING ==
    <<"\"", "r", "e", "a", "s", "o", "n", "i", "n", "g", "\"", ":", "\"", "o", "k", "\"">>
PAIR_CATEGORY ==
    <<"\"", "c", "a", "t", "e", "g", "o", "r", "y", "\"", ":", "\"", "a", "u", "t", "o", "\"">>

JsonMembers ==
    { PAIR_TRUE, PAIR_FALSE, PAIR_STR, PAIR_CONFIDENCE, PAIR_REASONING, PAIR_CATEGORY }

\* the keys of a result that has all four
RESULT_KEYS == { "is_insurance", "confidence", "reasoning", "category" }

\* str.find(c) and str.rfind(c), counted from 0 as in the source, -1: absent
Find(s, c) ==
    IF \E i \in 1..Len(s) : s[i] = c
    THEN (CHOOSE i \in 1..Len(s) : s[i] = c /\ \A k \in 1..(i - 1) : s[k] # c) - 1
    ELSE -1

RFind(s, c) ==
    IF \E i \in 1..Len(s) : s[i] = c
    THEN (CHOOSE i \in 1..Len(s) : s[i] = c /\ \A k \in (i + 1)..Len(s) : s[k] # c) - 1
    ELSE -1

\* the pieces between the commas
RECURSIVE SplitCommas(_)
SplitCommas(s) ==
    IF \A k \in 1..Len(s) : s[k] # ","
    THEN << s >>
    ELSE LET n == CHOOSE i \in 1..Len(s) :
                      s[i] = "," /\ \A k \in 1..(i - 1) : s[k] # ","
         IN  << SubSeq(s, 1, n - 1) >> \o SplitCommas(SubSeq(s, n + 1, Len(s)))

\* the members of json_str, a text that opens with { and closes with }
MembersOf(json_str) ==
    LET inner == SubSeq(json_str, 2, Len(json_str) - 1)
    IN  IF inner = << >> THEN << >> ELSE SplitCommas(inner)

\* json.loads(json_str) does not raise JSONDecodeError
JsonValid(json_str) ==
    \A k \in 1..Len(MembersOf(json_str)) : MembersOf(json_str)[k] \in JsonMembers

\* json.loads(json_str): the dict, a later member replacing an earlier one of
\* the same key.  is_insurance is "True", "False", "str" for the non-empty
\* string "false", or "absent"; the values of absent keys are those that
\* dict.get defaults to.
JsonLoads(json_str) ==
    LET members == MembersOf(json_str)
        Has(p) == \E k \in 1..Len(members) : members[k] = p
        flags == { k \in 1..Len(members) : members[k] \in { PAIR_TRUE, PAIR_FALSE, PAIR_STR } }
        flag == members[CHOOSE k \in flags : \A j \in flags : j <= k]
    IN  [ keys |-> (IF flags # { } THEN { "is_insurance" } ELSE { })
                   \cup (IF Has(PAIR_CONFIDENCE) THEN { "confidence" } ELSE { })
                   \cup (IF Has(PAIR_REASONING) THEN { "reasoning" } ELSE { })
                   \cup (IF Has(PAIR_CATEGORY) THEN { "category" } ELSE { }),
          is_insurance |-> IF flags = { } THEN "absent"
                           ELSE IF flag = PAIR_TRUE THEN "True"
                           ELSE IF flag = PAIR_FALSE THEN "False"
                           ELSE "str",
          confidence |-> IF Has(PAIR_CONFIDENCE) THEN REPLY_CONFIDENCE ELSE 0,
          reasoning |-> IF Has(PAIR_REASONING) THEN "ok" ELSE "absent",
          category |-> IF Has(PAIR_CATEGORY) THEN "auto" ELSE "unknown" ]

\* _parse_llm_response_fallback: the reply read as text
parse_llm_response_fallback(response_content) ==
    LET response_lower == Lower(response_content)
    IN  [ keys |-> RESULT_KEYS,
          is_insurance |-> IF AnyKeywordIn(filter_keywords, response_lower)
                           THEN "True" ELSE "False",
          confidence |-> PARSE_FALLBACK_CONFIDENCE,
          reasoning |-> "parsing failed",
          category |-> IF AnyKeywordIn(auto_words, response_lower) THEN "auto_claim"
                       ELSE IF AnyKeywordIn(health_words, response_lower)
                       THEN "health_inquiry"
                       ELSE IF AnyKeywordIn(property_words, response_lower)
                       THEN "property_claim"
                       ELSE "unknown" ]

\* keyword_count of _fallback_insurance_check
keyword_count(email_data) ==
    Cardinality({ keyword \in insurance_keywords :
                    \/ Contains(Lower(email_data.subject), keyword)
                    \/ Contains(Lower(email_data.content), keyword) })

\* _fallback_insurance_check: the keyword check over subject and content
fallback_insurance_check(email_data) ==
    [ keys |-> RESULT_KEYS,
      is_insurance |-> IF keyword_count(email_data) >= MIN_KEYWORDS
                       THEN "True" ELSE "False",
      confidence |-> FALLBACK_CONFIDENCE,
      reasoning |-> "keyword check",
      category |-> "fallback_analysis" ]

\* the test json_start >= 0 and json_end > json_start
HasJsonSpan(response_content) ==
    LET json_start == Find(response_content, "{")
        json_end == RFind(response_content, "}") + 1
    IN  json_start >= 0 /\ json_end > json_start

\* response_content[json_start:json_end]
JsonSpan(response_content) ==
    SubSeq(response_content, Find(response_content, "{") + 1,
           RFind(response_content, "}") + 1)

\* filter_email_with_llm: call is "raises" when LLM.invoke raises, else "ok"
\* and response_content is the text of the reply
filter_email_with_llm(call, response_content, email_data) ==
    IF call = "raises" THEN fallback_insurance_check(email_data)
    ELSE IF HasJsonSpan(response_content)
    THEN IF JsonValid(JsonSpan(response_content))
         THEN JsonLoads(JsonSpan(response_content))
         ELSE fallback_insurance_check(email_data)
    ELSE parse_llm_response_fallback(response_content)

(***************************************************************************)
(* Filter replies and emails the model draws from.                         *)
(***************************************************************************)
PART_OPEN ==
    <<"{">>
PART_CLOSE ==
    <<"}">>
PART_FULL ==
    <<"\"", "i", "s", "_", "i", "n", "s", "u", "r", "a", "n", "c", "e", "\"", ":", "t", "r", "u", "e", ",", "\"", "c", "o", "n", "f", "i", "d", "e", "n", "c", "e", "\"", ":", "9", "0", ",", "\"", "r", "e", "a", "s", "o", "n", "i", "n", "g", "\"", ":", "\"", "o", "k", "\"", ",", "\"", "c", "a", "t", "e", "g", "o", "r", "y", "\"", ":", "\"", "a", "u", "t", "o", "\"">>
PART_YES ==
    <<"y", "e", "s">>

Parts == { PART_OPEN, PART_CLOSE, PART_FULL, PAIR_TRUE, PAIR_STR, PART_YES }

FilterReplies ==
    { Flatten(cs) : cs \in UNION { [1..n -> Parts] : n \in 1..MaxChunks } }

SUBJECT_CLAIM ==
    <<"C", "l", "a", "i", "m">>
SUBJECT_HELLO ==
    <<"H", "e", "l", "l", "o">>
BODY_ACCIDENT ==
    <<"A", "c", "c", "i", "d", "e", "n", "t", " ", "c", "l", "a", "i", "m">>
BODY_POLICY ==
    <<"M", "y", " ", "p", "o", "l", "i", "c", "y">>

Subjects == { SUBJECT_CLAIM, SUBJECT_HELLO }

FilteredBodies == { BODY_PLAIN, BODY_ACCIDENT, BODY_POLICY }

(***************************************************************************)
(* State.                                                                  *)
(***************************************************************************)
VARIABLES
    mailbox,             \* number of messages in the inbox on the mail server
    mail_tracking,       \* db.mail_tracking: << mail_count >> of the latest record, the
                         \* one record find_one(sort _id descending) reads; << >>: none
    fulfillment,         \* db.fulfillment: the records written through /add-fulfillment
    email_queue,         \* email_queue: the queued email_data, head first
    claim_count,         \* number of claim ids generated so far
    handled,             \* the email_data handled last and what was done with it
    rejected,            \* claim ids whose sender the directory did not know
    fetched,             \* sequence ids fetched with status OK so far
    batch_failed,        \* a fetch of the current batch answered other than OK
    settled,             \* the cursor was written equal to the inbox size, and the
                         \* inbox has not changed since
    pc,                  \* where monitor_mails is: "start", "poll", "fetch", "process",
                         \* "sleep"; returned: "no_database", "no_mail_server", "stopped"
    current_mail_count,  \* local of monitor_mails
    stored_mail_count,   \* local of monitor_mails
    fetch_i,             \* loop index i of fetch_new_mails_to_queue
    emails_added,        \* local of fetch_new_mails_to_queue
    faults,              \* failures of collaborators so far
    bootstraps,          \* times the first-run branch was taken
    io,                  \* outcome of the collaborator calls of the latest poll
    late,                \* sequence id of the message that arrived last while a cycle
                         \* was fetching or processing, until it is fetched or the
                         \* cursor has moved to it or past it; 0: there is none
    startup,             \* what connect_to_database and connect_to_mail_server
                         \* answered when monitor_mails started
    asm_reply,           \* llm_response given to parse_fulfillment_response
    asm_attachment_count,\* email_data['attachment_count'] given to it
    asm_content,         \* email_data['content'] given to it
    asm_result,          \* what it returned
    cls_call,            \* LLM.invoke in filter_email_with_llm: "ok" or "raises"
    cls_reply,           \* response.content
    cls_subject,         \* email_data['subject'] given to filter_email_with_llm
    cls_content,         \* email_data['content'] given to it
    cls_result,           \* what it returned
    db_fulfillment,      \* the fulfillment API's view of db.fulfillment: the documents
                         \* in insertion order
    claim_id_index,      \* "none": the API has not started; "unique": the unique index
                         \* on claim_id is there; "absent": create_index failed;
                         \* "down": connect failed at startup
    api_response,        \* the request served last and the status code answered
    claim_folder,        \* attachments/<claim_id> on local storage: whether it exists,
                         \* which of the attachment paths are files in it, whether it
                         \* holds a file that is none of them
    cleanup_input,       \* email_data['attachment_paths'] (their number), whether
                         \* os.remove fails in this folder, whether the folder is
                         \* older than the cutoff of the sweep
    cleanup_log          \* the cleanup run last, whether it raised, and how many times
                         \* it has run in a row

asm_vars == << asm_reply, asm_attachment_count, asm_content, asm_result >>

cls_vars == << cls_call, cls_reply, cls_subject, cls_content, cls_result >>

\* the variables of the runs of single functions
store_vars == << db_fulfillment, claim_id_index, api_response >>

fs_vars == << claim_folder, cleanup_input, cleanup_log >>

unit_vars == << asm_vars, cls_vars, store_vars, fs_vars >>

loop_vars ==
    << mailbox, mail_tracking, fulfillment, email_queue, claim_count, handled,
       rejected, fetched, batch_failed, settled, pc, current_mail_count,
       stored_mail_count, fetch_i, emails_added, faults, bootstraps, io, startup, late >>

vars == << loop_vars, unit_vars >>

\* no request served yet
NoResponse == [ request |-> "none", claim_id |-> 0, status_code |-> 0 ]

\* the fulfillment API is not running
StoreIdle ==
    /\ db_fulfillment = << >>
    /\ claim_id_index = "none"
    /\ api_response = NoResponse

\* no claim folder, no cleanup run
NoFolder == [ exists |-> FALSE, files |-> { }, strangers |-> FALSE ]

NoCleanup == [ op |-> "none", raised |-> FALSE, runs |-> 0 ]

FsIdle ==
    /\ claim_folder = NoFolder
    /\ cleanup_input = [ paths |-> 0, locked |-> FALSE, old |-> FALSE ]
    /\ cleanup_log = NoCleanup

\* no reply assessed yet
NoResult ==
    [ status |-> "none", missing_items |-> << >>, satisfied_items |-> << >>,
      email_content |-> [ satisfied_items |-> << >>, missing_items |-> << >> ] ]

\* no email filtered yet
NoFilterResult ==
    [ keys |-> { }, is_insurance |-> "none", confidence |-> 0, reasoning |-> "none",
      category |-> "none" ]

\* no collaborator called yet
NoIo == [ count_read |-> "none", store_read |-> "none", store_write |-> "none" ]

\* monitor_mails has not tried to connect
NoStartup == [ database |-> "none", mail_server |-> "none" ]

\* status codes of the user directory, and the answer of no lookup
HTTP_OK == 200
HTTP_NOT_FOUND == 404
HTTP_SERVER_ERROR == 500
HTTP_BAD_REQUEST == 400

\* no upload result: upload_complete_email was not called or returned None
NoUpload == [ result |-> FALSE, mail_content |-> FALSE, attachments |-> 0 ]

NoAnswer == [ raises |-> FALSE, status_code |-> 0, status |-> "none", user |-> "none" ]

\* no email_data handled yet
NoHandled ==
    [ claim_id |-> 0, attachment_count |-> 0, llm_filter_result |-> "none",
      answer |-> NoAnswer, status |-> "none", uploaded |-> NoUpload,
      outcome |-> "none", lookup |-> "none",
      assessed |-> FALSE, emails |-> 0, success |-> "none", folder |-> FALSE,
      files |-> 0 ]

Outcome(ok) == IF ok THEN "ok" ELSE "failed"

Cost(ok) == IF ok THEN 0 ELSE 1

(***************************************************************************)
(* mail_monitor.py: the mailbox cursor.                                    *)
(***************************************************************************)
\* get_current_mail_count: the inbox size, 0 when select fails or raises
get_current_mail_count(ok) == IF ok THEN mailbox ELSE 0

\* get_last_mail_details: the most recent record, None when there is none or
\* when find_one raises
get_last_mail_details(ok) ==
    IF ok /\ mail_tracking # << >>
    THEN [ found |-> TRUE, mail_count |-> mail_tracking[1] ]
    ELSE [ found |-> FALSE, mail_count |-> 0 ]

\* get_stored_mail_details: (mail_count, last_connection_time), (0, None)
\* when get_last_mail_details returned None
get_stored_mail_details(ok) ==
    LET result == get_last_mail_details(ok)
    IN  IF result.found
        THEN [ mail_count |-> result.mail_count, last_connection_time |-> "set" ]
        ELSE [ mail_count |-> 0, last_connection_time |-> "None" ]

\* update_mail_details / update_mail_tracking: insert a new record, which is
\* the latest from then on; nothing changes when insert_one raises
update_mail_details(mail_count, ok) ==
    IF ok THEN << mail_count >> ELSE mail_tracking

\* the loop body without its first-run test
BranchNoFirstRun(current, stored, last_connection_time) ==
    IF current > stored THEN "fetch" ELSE "idle"

\* the if / elif / else of the loop body of monitor_mails
Branch(current, stored, last_connection_time) ==
    IF last_connection_time = "None" THEN "bootstrap"
    ELSE IF current > stored THEN "fetch"
    ELSE "idle"

\* the cursor: mail_count of the latest record (0 when there is none)
Cursor == IF mail_tracking = << >> THEN 0 ELSE mail_tracking[1]

\* the message that arrived during a cycle is still ahead of the cursor
\* record tracking
StillAhead(id, tracking) ==
    IF tracking # << >> /\ tracking[1] >= id THEN 0 ELSE id

\* the latest cursor record equals the inbox size
AtInboxSize(tracking, inbox) == tracking = << inbox >>

(***************************************************************************)
(* monitor_mails, top of the loop body: read both counts and branch.  The  *)
(* first-run branch writes the baseline and ends the cycle.                *)
(***************************************************************************)
Poll ==
    /\ pc = "poll"
    /\ \E count_ok \in BOOLEAN, read_ok \in BOOLEAN, write_ok \in BOOLEAN :
         LET current == get_current_mail_count(count_ok)
             stored == get_stored_mail_details(read_ok)
             branch == Branch(current, stored.mail_count, stored.last_connection_time)
         IN  /\ (branch # "bootstrap" => write_ok)
             /\ faults + Cost(count_ok) + Cost(read_ok) + Cost(write_ok) <= MaxFaults
             /\ faults' = faults + Cost(count_ok) + Cost(read_ok) + Cost(write_ok)
             /\ current_mail_count' = current
             /\ stored_mail_count' = stored.mail_count
             /\ io' = [ count_read |-> Outcome(count_ok),
                        store_read |-> Outcome(read_ok),
                        store_write |-> IF branch = "bootstrap"
                                        THEN Outcome(write_ok) ELSE "none" ]
             /\ bootstraps' = IF branch = "bootstrap" THEN bootstraps + 1 ELSE bootstraps
             /\ mail_tracking' = IF branch = "bootstrap"
                                 THEN update_mail_details(current, write_ok)
                                 ELSE mail_tracking
             /\ pc' = IF branch = "fetch" THEN "fetch" ELSE "sleep"
             /\ fetch_i' = stored.mail_count + 1
             /\ emails_added' = 0
    /\ settled' = (settled \/ AtInboxSize(mail_tracking', mailbox))
    /\ late' = StillAhead(late, mail_tracking')
    /\ batch_failed' = FALSE
    /\ UNCHANGED << mailbox, fulfillment, email_queue, claim_count, handled, rejected,
                    fetched, startup,
                    unit_vars >>

(***************************************************************************)
(* fetch_new_mails_to_queue: one iteration of the loop over the new ids.   *)
(***************************************************************************)
\* email_data as built for message i with n saved attachments
EmailData(claim_id, i, n) ==
    [ claim_id |-> claim_id, email_id |-> i, attachment_count |-> n ]

\* the else branch for a message the filter turned down: with attachments,
\* remove them and the folder once it is empty; without, touch nothing (the
\* claim folder is created by process_email_attachments whatever n is)
FilteredOut(email_data) ==
    [ NoHandled EXCEPT !.claim_id = email_data.claim_id,
                       !.attachment_count = email_data.attachment_count,
                       !.outcome = "filtered",
                       !.folder = (email_data.attachment_count = 0),
                       !.files = 0 ]

\* the replies of the classifier backend the poll loop meets
IntakeReplies ==
    { Flatten(<< PART_OPEN, p, PART_CLOSE >>) : p \in { PART_FULL, PAIR_TRUE, PAIR_STR, << >> } }
      \cup { PART_YES, PART_OPEN }

\* llm_result['is_insurance'] for every result filter_email_with_llm returns
\* on those replies ("absent": the result has no such key)
FilterVerdicts ==
    { filter_email_with_llm(call, reply, [ subject |-> subject, content |-> content ]).is_insurance :
        call \in { "ok", "raises" }, reply \in IntakeReplies,
        subject \in Subjects, content \in FilteredBodies }

\* llm_result and llm_result.get('is_insurance', False): the test is on the
\* truth value, and a non-empty string has the truth value True
Accepted(is_insurance) == is_insurance \in { "True", "str" }

\* a put that would let the new record overtake the ones already queued
put_first(queue, item) == << item >> \o queue

\* email_queue.put(email_data): queue.Queue is first in, first out
put(queue, item) == Append(queue, item)

\* email_queue.get_nowait()
get_nowait(queue) == Head(queue)

\* a handler that would give the batch up at the first failure
leave_batch(i, end_index) == end_index + 1

\* continue, in the status test and in the inner except: the for loop goes
\* on with the next id
continue(i, end_index) == i + 1

FetchNewMail ==
    /\ pc = "fetch"
    /\ fetch_i <= current_mail_count
    /\ \/ \* the fetch answers other than OK, or raises: log and continue
          /\ faults < MaxFaults
          /\ fetch_i' = continue(fetch_i, current_mail_count)
          /\ faults' = faults + 1
          /\ batch_failed' = TRUE
          /\ UNCHANGED << claim_count, handled, fetched, email_queue, emails_added, late >>
       \/ \* fetched, parsed, attachments saved, filtered by the classifier
          /\ claim_count < MaxClaims
          /\ fetch_i' = fetch_i + 1
          /\ claim_count' = claim_count + 1
          /\ fetched' = fetched \cup { fetch_i }
          /\ late' = IF late = fetch_i THEN 0 ELSE late
          /\ \E n \in 0..MaxAttachments, is_insurance \in FilterVerdicts :
               LET email_data == EmailData(claim_count + 1, fetch_i, n)
               IN  \* a result whose is_insurance is no boolean counts as a
                   \* failure of the backend
                   /\ faults + Cost(is_insurance \in { "True", "False" }) <= MaxFaults
                   /\ faults' = faults + Cost(is_insurance \in { "True", "False" })
                   /\ IF Accepted(is_insurance)
                      THEN \* email_data['llm_filter_result'] = llm_result
                           /\ email_queue' = put(email_queue,
                                  email_data @@ [ llm_filter_result |-> is_insurance ])
                           /\ emails_added' = emails_added + 1
                           /\ UNCHANGED handled
                      ELSE /\ handled' = [ FilteredOut(email_data) EXCEPT
                                             !.llm_filter_result = is_insurance ]
                           /\ UNCHANGED << email_queue, emails_added >>
          /\ UNCHANGED batch_failed
    /\ UNCHANGED << mailbox, mail_tracking, fulfillment, rejected, settled, pc,
                    current_mail_count, stored_mail_count, bootstraps, io, startup,
                    unit_vars >>

(***************************************************************************)
(* monitor_mails after fetch_new_mails_to_queue returned: write the cursor *)
(* and run the queue processor when something was added.                   *)
(***************************************************************************)
\* a cycle that would call the queue processor after every fetch
RunsAlways(added) == TRUE

\* whether process_email_queue is called
RunsProcessor(added) == added > 0

UpdateAfterFetch ==
    /\ pc = "fetch"
    /\ fetch_i > current_mail_count
    /\ \E write_ok \in BOOLEAN :
         /\ faults + Cost(write_ok) <= MaxFaults
         /\ faults' = faults + Cost(write_ok)
         /\ mail_tracking' = update_mail_details(current_mail_count, write_ok)
         /\ io' = [ io EXCEPT !.store_write = Outcome(write_ok) ]
    /\ settled' = (settled \/ AtInboxSize(mail_tracking', mailbox))
    /\ late' = StillAhead(late, mail_tracking')
    /\ pc' = IF RunsProcessor(emails_added) THEN "process" ELSE "sleep"
    \* the counts and the locals of the batch are not read again in this cycle
    /\ current_mail_count' = 0
    /\ stored_mail_count' = 0
    /\ fetch_i' = 1
    /\ emails_added' = 0
    /\ batch_failed' = FALSE
    /\ UNCHANGED << mailbox, fulfillment, email_queue, claim_count, handled, rejected,
                    fetched, bootstraps, startup,
                    unit_vars >>

(***************************************************************************)
(* fulfillment_processor.py: process_email_fulfillment.                    *)
(***************************************************************************)
\* parse_fulfillment_response for every reply and attachment count the poll
\* loop can meet (the body of the email has no part in the result)
ParsedReplies ==
    [ n \in 0..MaxAttachments |->
        [ r \in PipelineReplies |->
            parse_fulfillment_response(r, [ content |-> << >>, attachment_count |-> n ]) ] ]

\* The status process_email_fulfillment works with: "None" when
\* assess_fulfillment_with_llm returned nothing (the call failed or the reply
\* is empty), else the status parse_fulfillment_response returns.
AssessedStatus(attachment_count, llm_response) ==
    IF llm_response = << >> THEN "None"
    ELSE ParsedReplies[attachment_count][llm_response].status

\* the statuses process_email_fulfillment can come to work with for an
\* email_data with n attachments, over every reply of the backend
AssessedStatuses ==
    [ n \in 0..MaxAttachments |->
        { AssessedStatus(n, llm_response) : llm_response \in PipelineReplies \cup { << >> } } ]

\* What upload_complete_email returns for an email_data with n attachments:
\* None when it raises (or the store cannot be reached), else the upload
\* result with the mail content blob, or None in its place, and the blobs of
\* the attachments whose upload succeeded.
UploadResults(n) ==
    { NoUpload } \cup { [ result |-> TRUE, mail_content |-> m, attachments |-> k ] :
                          m \in BOOLEAN, k \in 0..n }

\* the result with every blob in it
AllUploaded(n) == [ result |-> TRUE, mail_content |-> TRUE, attachments |-> n ]

\* "none": None; "all": every blob is there; "partial": some blob is missing
UploadKind(mongodb_result, n) ==
    IF ~mongodb_result.result THEN "none"
    ELSE IF mongodb_result.mail_content /\ mongodb_result.attachments = n THEN "all"
    ELSE "partial"

\* What one call does from there, given the outcome of the archive upload
\* and of the two service calls.
\*   success: the value returned;  record: the status written to db.fulfillment
\*   archive: the file ids the record carries;  cleanup: local files deleted
\*   emails: messages sent to the customer;  calls: the collaborators called

\* a PENDING branch that would report the write alone
pending_reports_write(save_ok, mail_ok) ==
    [ success |-> save_ok,
      record |-> IF save_ok THEN "pending" ELSE "none",
      archive |-> "absent",
      cleanup |-> FALSE,
      emails |-> IF save_ok /\ mail_ok THEN 1 ELSE 0,
      calls |-> IF save_ok THEN { "save", "mail" } ELSE { "save" } ]

\* a PENDING branch that would clear the local files once the mail is out
pending_with_cleanup(save_ok, mail_ok) ==
    [ success |-> save_ok /\ mail_ok,
      record |-> IF save_ok THEN "pending" ELSE "none",
      archive |-> "absent",
      cleanup |-> save_ok /\ mail_ok,
      emails |-> IF save_ok /\ mail_ok THEN 1 ELSE 0,
      calls |-> IF save_ok THEN { "save", "mail" } ELSE { "save" } ]

\* the PENDING branch: save the record, then, when it was saved, send the
\* mail that asks for the missing items
pending_branch(save_ok, mail_ok) ==
    [ success |-> save_ok /\ mail_ok,
      record |-> IF save_ok THEN "pending" ELSE "none",
      archive |-> "absent",
      cleanup |-> FALSE,
      emails |-> IF save_ok /\ mail_ok THEN 1 ELSE 0,
      calls |-> IF save_ok THEN { "save", "mail" } ELSE { "save" } ]

\* a COMPLETED branch that would report the upload, whatever the save did
completed_reports_upload(upload, save_ok) ==
    [ success |-> upload # "none",
      record |-> IF save_ok THEN "completed" ELSE "none",
      archive |-> IF upload # "none" THEN upload ELSE "absent",
      cleanup |-> upload # "none" /\ save_ok,
      emails |-> 0,
      calls |-> { "upload", "save" } ]

\* the COMPLETED branch: upload, save the record with or without the file
\* ids, and clean up when the upload returned a result and the save succeeded
completed_branch(upload, save_ok) ==
    IF upload # "none"
    THEN [ success |-> save_ok,
           record |-> IF save_ok THEN "completed" ELSE "none",
           archive |-> upload,
           cleanup |-> save_ok,
           emails |-> 0,
           calls |-> { "upload", "save" } ]
    ELSE [ success |-> save_ok,
           record |-> IF save_ok THEN "completed" ELSE "none",
           archive |-> "absent",
           cleanup |-> FALSE,
           emails |-> 0,
           calls |-> { "upload", "save" } ]

\* an engine that would take a missing reply for a PENDING assessment
no_reply_saved_as_pending(status, upload, save_ok, mail_ok) ==
    IF status = "COMPLETED"
    THEN completed_branch(upload, save_ok)
    ELSE pending_branch(save_ok, mail_ok)

\* process_email_fulfillment: status "None" stands for no reply from the
\* backend (assess_fulfillment_with_llm returned None or an empty string)
process_email_fulfillment(status, upload, save_ok, mail_ok) ==
    IF status = "None"
    THEN [ success |-> FALSE, record |-> "none", archive |-> "absent",
           cleanup |-> FALSE, emails |-> 0, calls |-> { } ]
    ELSE IF status = "COMPLETED"
    THEN completed_branch(upload, save_ok)
    ELSE pending_branch(save_ok, mail_ok)

(***************************************************************************)
(* process_email_queue: one iteration of the while loop.                   *)
(***************************************************************************)
\* the gate left open for every sender
ProceedsAlways(is_registered) == TRUE

\* whether the record goes on to process_email_fulfillment
ProceedsToFulfillment(is_registered) == is_registered

\* user_validation['is_registered'] as the directory reported it
Lookup(is_registered) == IF is_registered THEN "registered" ELSE "unregistered"

\* What requests.get on the user directory can come to: an exception
\* (connection refused, timeout), or a response with its status code, the
\* 'status' member of its body and the kind of its 'user' member.
DirectoryAnswers ==
    { [ raises |-> FALSE, status_code |-> HTTP_OK, status |-> "success", user |-> "dict" ],
      [ raises |-> FALSE, status_code |-> HTTP_OK, status |-> "success", user |-> "null" ],
      [ raises |-> FALSE, status_code |-> HTTP_OK, status |-> "error", user |-> "absent" ],
      [ raises |-> FALSE, status_code |-> HTTP_OK, status |-> "absent", user |-> "absent" ],
      [ raises |-> FALSE, status_code |-> HTTP_NOT_FOUND, status |-> "absent", user |-> "absent" ],
      [ raises |-> FALSE, status_code |-> HTTP_SERVER_ERROR, status |-> "absent", user |-> "absent" ],
      [ raises |-> TRUE, status_code |-> 0, status |-> "none", user |-> "none" ] }

\* the answers of a directory that is up and keeps to its interface
Regular(answer) ==
    /\ ~answer.raises
    /\ \/ answer.status_code = HTTP_OK /\ answer.status = "success" /\ answer.user = "dict"
       \/ answer.status_code = HTTP_NOT_FOUND

\* a lookup that would let a sender through whenever the directory did not
\* say "not found"
registered_unless_not_found(answer) ==
    answer.raises \/ answer.status_code # HTTP_NOT_FOUND

\* check_user_registration: is_registered.  With 'user' null the print of
\* the user's fields raises inside the try, and the handler answers False.
check_user_registration(answer) ==
    IF answer.raises THEN FALSE
    ELSE IF answer.status_code = HTTP_OK
    THEN IF answer.status = "success"
         THEN answer.user = "dict"
         ELSE FALSE
    ELSE FALSE

\* a rejection that would remove the local files once the sender was told
rejected_with_cleanup(email_sent) ==
    [ emails |-> IF email_sent THEN 1 ELSE 0, cleanup |-> email_sent ]

\* the branch for a sender who is not registered: the rejection mail, a
\* print of how it went, continue; the local files are not touched
rejected_branch(email_sent) ==
    [ emails |-> IF email_sent THEN 1 ELSE 0, cleanup |-> FALSE ]

\* the email_data as it stands when it is taken off the queue: claim folder
\* present, every saved attachment in it
Dequeued(email_data) ==
    [ NoHandled EXCEPT !.claim_id = email_data.claim_id,
                       !.attachment_count = email_data.attachment_count,
                       !.folder = TRUE,
                       !.files = email_data.attachment_count ]

ProcessEmail ==
    /\ pc = "process"
    /\ email_queue # << >>
    /\ LET email_data == get_nowait(email_queue)
           c == email_data.claim_id
           n == email_data.attachment_count
       IN  \E answer \in DirectoryAnswers :
           \E is_registered \in { check_user_registration(answer) } :
             /\ rejected' = IF is_registered THEN rejected ELSE rejected \cup { c }
             /\ IF ~ProceedsToFulfillment(is_registered)
                THEN \* the rejection mail, then continue
                     \E email_sent \in BOOLEAN :
                     \E r \in { rejected_branch(email_sent) } :
                       /\ faults + Cost(Regular(answer)) + Cost(email_sent) <= MaxFaults
                       /\ faults' = faults + Cost(Regular(answer)) + Cost(email_sent)
                       /\ handled' = [ Dequeued(email_data) EXCEPT
                                         !.answer = answer,
                                         !.lookup = Lookup(is_registered),
                                         !.outcome = "unregistered",
                                         !.emails = r.emails,
                                         !.files = IF r.cleanup THEN 0 ELSE @,
                                         !.folder = IF r.cleanup /\ n > 0
                                                    THEN FALSE ELSE @ ]
                       /\ UNCHANGED fulfillment
                ELSE \* a collaborator that is not called has no outcome to choose
                     \E status \in AssessedStatuses[n] :
                     \E mongodb_result \in IF status = "COMPLETED" THEN UploadResults(n)
                                           ELSE { AllUploaded(n) } :
                     \E save_ok \in IF status = "None" THEN { TRUE } ELSE BOOLEAN :
                     \E mail_ok \in IF status \notin { "None", "COMPLETED" } /\ save_ok THEN BOOLEAN
                                    ELSE { TRUE } :
                     \E r \in { process_email_fulfillment(status, UploadKind(mongodb_result, n),
                                                          save_ok, mail_ok) } :
                       LET upload == UploadKind(mongodb_result, n)
                           cost == Cost(Regular(answer)) + Cost(status # "None")
                                   + Cost(upload = "all") + Cost(save_ok) + Cost(mail_ok)
                       IN  /\ faults + cost <= MaxFaults
                           /\ faults' = faults + cost
                           /\ handled' = [ Dequeued(email_data) EXCEPT
                                             !.answer = answer,
                                             !.lookup = Lookup(is_registered),
                                             !.assessed = TRUE,
                                             !.status = status,
                                             !.uploaded = IF "upload" \in r.calls
                                                          THEN mongodb_result ELSE NoUpload,
                                             !.outcome = IF r.record = "none"
                                                         THEN "failed" ELSE r.record,
                                             !.emails = r.emails,
                                             !.success = IF r.success THEN "True" ELSE "False",
                                             !.files = IF r.cleanup THEN 0 ELSE @,
                                             !.folder = IF r.cleanup /\ n > 0
                                                        THEN FALSE ELSE @ ]
                           /\ fulfillment' =
                                IF r.record = "none" THEN fulfillment
                                ELSE fulfillment \cup
                                       { [ claim_id |-> c, fulfillment_status |-> r.record,
                                           archive |-> r.archive ] }
    /\ email_queue' = Tail(email_queue)
    /\ UNCHANGED << mailbox, mail_tracking, claim_count, fetched, batch_failed, settled,
                    pc, current_mail_count, stored_mail_count, fetch_i, emails_added,
                    bootstraps, io, startup, late,
                    unit_vars >>

\* An exception inside the loop body, after the record was taken off the
\* queue and before the registration test: the subject decoded from the
\* header holds a character that cannot be encoded, so the print of the
\* subject raises.  The handler logs and breaks, and process_email_queue
\* returns with the rest of the queue in place.
ProcessRaises ==
    /\ pc = "process"
    /\ email_queue # << >>
    /\ faults < MaxFaults
    /\ faults' = faults + 1
    /\ handled' = [ Dequeued(get_nowait(email_queue)) EXCEPT !.outcome = "error" ]
    /\ email_queue' = Tail(email_queue)
    /\ pc' = "sleep"
    /\ UNCHANGED << mailbox, mail_tracking, fulfillment, claim_count, rejected, fetched,
                    batch_failed, settled, current_mail_count, stored_mail_count,
                    fetch_i, emails_added, bootstraps, io, startup, late,
                    unit_vars >>

\* the while condition fails: process_email_queue returns
ProcessDone ==
    /\ pc = "process"
    /\ email_queue = << >>
    /\ pc' = "sleep"
    /\ UNCHANGED << mailbox, mail_tracking, fulfillment, email_queue, claim_count,
                    handled, rejected, fetched, batch_failed, settled,
                    current_mail_count, stored_mail_count, fetch_i, emails_added, faults,
                    bootstraps, io, startup, late,
                    unit_vars >>

\* time.sleep(30) at the end of the loop body; the locals of the cycle are
\* dead from here on
Sleep ==
    /\ pc = "sleep"
    /\ pc' = "poll"
    /\ current_mail_count' = 0
    /\ stored_mail_count' = 0
    /\ fetch_i' = 1
    /\ emails_added' = 0
    /\ io' = NoIo
    /\ batch_failed' = FALSE
    /\ UNCHANGED << mailbox, mail_tracking, fulfillment, email_queue, claim_count,
                    handled, rejected, fetched, settled, faults, bootstraps, startup, late,
                    unit_vars >>

(***************************************************************************)
(* monitor_mails before the loop: connect to the store, then to the mail   *)
(* server, and return False when either fails.                             *)
(***************************************************************************)
\* a start that would go on without the mail server
connect_database_only(db_ok, mail_ok) ==
    IF ~db_ok THEN "no_database" ELSE "poll"

\* where monitor_mails is after the two connects: returned at the first
\* (the mail server is not tried), returned at the second, or in the loop
connect_to_services(db_ok, mail_ok) ==
    IF ~db_ok THEN "no_database"
    ELSE IF ~mail_ok THEN "no_mail_server"
    ELSE "poll"

\* monitor_mails returned False before the loop
ReturnedAtStart == pc \in { "no_database", "no_mail_server" }

Start ==
    /\ pc = "start"
    /\ \E db_ok \in BOOLEAN, mail_ok \in BOOLEAN :
         /\ pc' = connect_to_services(db_ok, mail_ok)
         /\ startup' = [ database |-> Outcome(db_ok),
                         mail_server |-> IF db_ok THEN Outcome(mail_ok) ELSE "none" ]
    /\ UNCHANGED << mailbox, mail_tracking, fulfillment, email_queue, claim_count,
                    handled, rejected, fetched, batch_failed, settled,
                    current_mail_count, stored_mail_count, fetch_i, emails_added, faults,
                    bootstraps, io, late, unit_vars >>

(***************************************************************************)
(* The stop signal: SIGINT raises KeyboardInterrupt in the main thread at  *)
(* whatever statement it is executing.  No handler inside the loop catches *)
(* it (the handlers there are for Exception), so it reaches the handler of *)
(* monitor_mails, which returns True.  The two places modelled are the     *)
(* sleep at the end of a cycle, where the thread spends nearly all of its  *)
(* time, and the directory lookup of a record just taken off the queue.    *)
(***************************************************************************)
InterruptInSleep ==
    /\ pc = "sleep"
    /\ pc' = "stopped"
    /\ current_mail_count' = 0
    /\ stored_mail_count' = 0
    /\ fetch_i' = 1
    /\ emails_added' = 0
    /\ io' = NoIo
    /\ batch_failed' = FALSE
    /\ UNCHANGED << mailbox, mail_tracking, fulfillment, email_queue, claim_count,
                    handled, rejected, fetched, settled, faults, bootstraps, startup, late,
                    unit_vars >>

\* KeyboardInterrupt inside requests.get of check_user_registration: the
\* record is off the queue, nothing was done with it, and the loop is left
InterruptInRecord ==
    /\ pc = "process"
    /\ email_queue # << >>
    /\ handled' = [ Dequeued(get_nowait(email_queue)) EXCEPT !.outcome = "abandoned" ]
    /\ email_queue' = Tail(email_queue)
    /\ pc' = "stopped"
    /\ current_mail_count' = 0
    /\ stored_mail_count' = 0
    /\ fetch_i' = 1
    /\ emails_added' = 0
    /\ io' = NoIo
    /\ batch_failed' = FALSE
    /\ UNCHANGED << mailbox, mail_tracking, fulfillment, claim_count, rejected, fetched,
                    settled, faults, bootstraps, startup, late, unit_vars >>

(***************************************************************************)
(* The mail server: a message arrives, or one is deleted from the inbox.   *)
(* A message arrives at any time: before a poll, while a batch is fetched  *)
(* or while the queue is processed (an arrival during the sleep is the     *)
(* same arrival just before the next Poll).  A deletion during a batch is  *)
(* a fetch that answers other than OK, then the deletion.                  *)
(***************************************************************************)
MailArrives ==
    /\ pc \in { "poll", "fetch", "process" }
    /\ mailbox < MaxMailbox
    /\ mailbox' = mailbox + 1
    /\ late' = IF pc = "poll" THEN late ELSE mailbox'
    /\ settled' = AtInboxSize(mail_tracking, mailbox')
    /\ UNCHANGED << mail_tracking, fulfillment, email_queue, claim_count, handled,
                    rejected, fetched, batch_failed, pc, current_mail_count,
                    stored_mail_count, fetch_i, emails_added, faults, bootstraps, io,
                    startup,
                    unit_vars >>

MailDeleted ==
    /\ pc = "poll"
    /\ mailbox > 0
    /\ faults < MaxFaults
    /\ mailbox' = mailbox - 1
    /\ late' = 0
    /\ faults' = faults + 1
    /\ settled' = AtInboxSize(mail_tracking, mailbox')
    /\ UNCHANGED << mail_tracking, fulfillment, email_queue, claim_count, handled,
                    rejected, fetched, batch_failed, pc, current_mail_count,
                    stored_mail_count, fetch_i, emails_added, bootstraps, io, startup,
                    unit_vars >>

(***************************************************************************)
(* The poll loop.  monitor_mails starts with whatever cursor an earlier    *)
(* run left in db.mail_tracking, or with none.                             *)
(***************************************************************************)
Init ==
    /\ mailbox \in 0..MaxMailbox
    /\ mail_tracking \in { << >> } \cup { << k >> : k \in 0..mailbox }
    /\ fulfillment = { }
    /\ email_queue = << >>
    /\ claim_count = 0
    /\ handled = NoHandled
    /\ rejected = { }
    /\ fetched = { }
    /\ batch_failed = FALSE
    /\ settled = AtInboxSize(mail_tracking, mailbox)
    /\ pc = "start"
    /\ current_mail_count = 0
    /\ stored_mail_count = 0
    /\ fetch_i = 1
    /\ emails_added = 0
    /\ faults = 0
    /\ bootstraps = 0
    /\ io = NoIo
    /\ startup = NoStartup
    /\ late = 0
    /\ asm_reply = << >>
    /\ asm_attachment_count = 0
    /\ asm_content = << >>
    /\ asm_result = NoResult
    /\ cls_call = "ok"
    /\ cls_reply = << >>
    /\ cls_subject = << >>
    /\ cls_content = << >>
    /\ cls_result = NoFilterResult
    /\ StoreIdle
    /\ FsIdle

Next ==
    \/ Start
    \/ Poll
    \/ FetchNewMail
    \/ UpdateAfterFetch
    \/ ProcessEmail
    \/ ProcessRaises
    \/ ProcessDone
    \/ Sleep
    \/ InterruptInSleep
    \/ InterruptInRecord
    \/ MailArrives
    \/ MailDeleted

Spec == Init /\ [][Next]_vars

\* The steps of the thread that runs monitor_mails.  The thread keeps running:
\* whenever it can take its next step it does.
LoopStep ==
    \/ Start
    \/ Poll
    \/ FetchNewMail
    \/ UpdateAfterFetch
    \/ ProcessEmail
    \/ ProcessRaises
    \/ ProcessDone
    \/ Sleep

FairSpec == Spec /\ WF_vars(LoopStep)

\* the bounds of the model leave the batch no way on: the claim ids are used
\* up and so are the failures
Exhausted ==
    /\ pc = "fetch"
    /\ fetch_i <= current_mail_count
    /\ claim_count = MaxClaims
    /\ faults = MaxFaults

\* the email_data of claim id c is on the queue
InQueue(c) == \E k \in 1..Len(email_queue) : email_queue[k].claim_id = c

(***************************************************************************)
(* parse_fulfillment_response on its own: every reply of Replies, every    *)
(* attachment count.                                                       *)
(***************************************************************************)
AssessInit ==
    /\ asm_reply \in Replies
    /\ asm_attachment_count \in 0..MaxAttachments
    /\ asm_content \in EmailBodies
    /\ asm_result = NoResult
    /\ cls_call = "ok"
    /\ cls_reply = << >>
    /\ cls_subject = << >>
    /\ cls_content = << >>
    /\ cls_result = NoFilterResult
    /\ StoreIdle
    /\ FsIdle
    /\ mailbox = 0
    /\ mail_tracking = << >>
    /\ fulfillment = { }
    /\ email_queue = << >>
    /\ claim_count = 0
    /\ handled = NoHandled
    /\ rejected = { }
    /\ fetched = { }
    /\ batch_failed = FALSE
    /\ settled = FALSE
    /\ pc = "assess"
    /\ current_mail_count = 0
    /\ stored_mail_count = 0
    /\ fetch_i = 1
    /\ emails_added = 0
    /\ faults = 0
    /\ bootstraps = 0
    /\ io = NoIo
    /\ startup = NoStartup
    /\ late = 0

Assess ==
    /\ asm_result.status = "none"
    /\ asm_result' = parse_fulfillment_response(
                        asm_reply,
                        [ content |-> asm_content,
                          attachment_count |-> asm_attachment_count ])
    /\ UNCHANGED << asm_reply, asm_attachment_count, asm_content, cls_vars, store_vars,
                    fs_vars, loop_vars >>

SpecAssess == AssessInit /\ [][Assess]_vars

(***************************************************************************)
(* filter_email_with_llm on its own: every reply of FilterReplies or a     *)
(* call that raises, every subject and body.                               *)
(***************************************************************************)
FilterInit ==
    /\ cls_call \in { "ok", "raises" }
    /\ cls_reply \in IF cls_call = "ok" THEN FilterReplies ELSE { << >> }
    /\ cls_subject \in Subjects
    /\ cls_content \in FilteredBodies
    /\ cls_result = NoFilterResult
    /\ StoreIdle
    /\ FsIdle
    /\ asm_reply = << >>
    /\ asm_attachment_count = 0
    /\ asm_content = << >>
    /\ asm_result = NoResult
    /\ mailbox = 0
    /\ mail_tracking = << >>
    /\ fulfillment = { }
    /\ email_queue = << >>
    /\ claim_count = 0
    /\ handled = NoHandled
    /\ rejected = { }
    /\ fetched = { }
    /\ batch_failed = FALSE
    /\ settled = FALSE
    /\ pc = "filter"
    /\ current_mail_count = 0
    /\ stored_mail_count = 0
    /\ fetch_i = 1
    /\ emails_added = 0
    /\ faults = 0
    /\ bootstraps = 0
    /\ io = NoIo
    /\ startup = NoStartup
    /\ late = 0

Filter ==
    /\ cls_result.is_insurance = "none"
    /\ cls_result' = filter_email_with_llm(
                        cls_call, cls_reply,
                        [ subject |-> cls_subject, content |-> cls_content ])
    /\ UNCHANGED << cls_call, cls_reply, cls_subject, cls_content, asm_vars, store_vars,
                    fs_vars, loop_vars >>

SpecFilter == FilterInit /\ [][Filter]_vars

(***************************************************************************)
(* apis/fulfillment_api.py over mongodb_manager.py: the service in front   *)
(* of db.fulfillment, taking requests from any client.                     *)
(***************************************************************************)
\* the statuses the status endpoint lets through
STATUSES == { "pending", "completed", "failed" }

\* the status values clients send: the three above and one that is none of them
RequestStatuses == STATUSES \cup { "reopened" }

\* a document with this claim_id is in the collection
HasClaim(docs, claim_id) == \E k \in 1..Len(docs) : docs[k].claim_id = claim_id

\* the first document with this claim_id, the one update_one works on
FirstOf(docs, claim_id) ==
    CHOOSE k \in 1..Len(docs) :
      /\ docs[k].claim_id = claim_id
      /\ \A j \in 1..(k - 1) : docs[j].claim_id # claim_id

\* create_fulfillment_request: insert_one raises when the server cannot be
\* reached or the write fails, and on a duplicate claim_id when the unique
\* index exists; the function then returns None
create_fulfillment_request(docs, request_data, index, write_ok) ==
    IF index = "down" \/ ~write_ok
       \/ (index = "unique" /\ HasClaim(docs, request_data.claim_id))
    THEN [ docs |-> docs, fulfillment_id |-> FALSE ]
    ELSE [ docs |-> Append(docs, request_data), fulfillment_id |-> TRUE ]

\* update_fulfillment_request: update_one with $set on the first match
update_fulfillment_request(docs, claim_id, update_data, index) ==
    IF index = "down" \/ ~HasClaim(docs, claim_id)
    THEN [ docs |-> docs, success |-> FALSE ]
    ELSE [ docs |-> [ docs EXCEPT ![FirstOf(docs, claim_id)].fulfillment_status =
                                    update_data.fulfillment_status ],
           success |-> TRUE ]

\* lifespan: connect, then initialize_collections, whose failure is printed
\* and not looked at
Startup ==
    /\ pc = "store"
    /\ claim_id_index = "none"
    /\ \E connected \in BOOLEAN, index_ok \in BOOLEAN :
         claim_id_index' = IF ~connected THEN "down"
                           ELSE IF index_ok THEN "unique" ELSE "absent"
    /\ UNCHANGED << db_fulfillment, api_response, asm_vars, cls_vars, fs_vars, loop_vars >>

\* POST /add-fulfillment
add_fulfillment ==
    /\ pc = "store"
    /\ claim_id_index # "none"
    /\ Len(db_fulfillment) < MaxRecords
    /\ \E claim_id \in 1..MaxClaims, fulfillment_status \in STATUSES, write_ok \in BOOLEAN :
         LET created == create_fulfillment_request(
                            db_fulfillment,
                            [ claim_id |-> claim_id,
                              fulfillment_status |-> fulfillment_status ],
                            claim_id_index, write_ok)
         IN  /\ db_fulfillment' = created.docs
             /\ api_response' =
                  [ request |-> "add", claim_id |-> claim_id,
                    status_code |-> IF created.fulfillment_id
                                    THEN HTTP_OK ELSE HTTP_SERVER_ERROR ]
    /\ UNCHANGED << claim_id_index, asm_vars, cls_vars, fs_vars, loop_vars >>

\* PUT /fulfillment/{claim_id}/status
update_fulfillment_status ==
    /\ pc = "store"
    /\ claim_id_index # "none"
    /\ \E claim_id \in 1..MaxClaims, status \in RequestStatuses :
         IF status \notin STATUSES
         THEN /\ api_response' = [ request |-> "update", claim_id |-> claim_id,
                                   status_code |-> HTTP_BAD_REQUEST ]
              /\ UNCHANGED db_fulfillment
         ELSE LET updated == update_fulfillment_request(
                                 db_fulfillment, claim_id,
                                 [ fulfillment_status |-> status ], claim_id_index)
              IN  /\ db_fulfillment' = updated.docs
                  /\ api_response' = [ request |-> "update", claim_id |-> claim_id,
                                       status_code |-> HTTP_OK ]
    /\ UNCHANGED << claim_id_index, asm_vars, cls_vars, fs_vars, loop_vars >>

StoreInit ==
    /\ StoreIdle
    /\ FsIdle
    /\ pc = "store"
    /\ asm_reply = << >>
    /\ asm_attachment_count = 0
    /\ asm_content = << >>
    /\ asm_result = NoResult
    /\ cls_call = "ok"
    /\ cls_reply = << >>
    /\ cls_subject = << >>
    /\ cls_content = << >>
    /\ cls_result = NoFilterResult
    /\ mailbox = 0
    /\ mail_tracking = << >>
    /\ fulfillment = { }
    /\ email_queue = << >>
    /\ claim_count = 0
    /\ handled = NoHandled
    /\ rejected = { }
    /\ fetched = { }
    /\ batch_failed = FALSE
    /\ settled = FALSE
    /\ current_mail_count = 0
    /\ stored_mail_count = 0
    /\ fetch_i = 1
    /\ emails_added = 0
    /\ faults = 0
    /\ bootstraps = 0
    /\ io = NoIo
    /\ startup = NoStartup
    /\ late = 0

StoreNext ==
    \/ Startup
    \/ add_fulfillment
    \/ update_fulfillment_status

SpecStore == StoreInit /\ [][StoreNext]_vars

(***************************************************************************)
(* fulfillment_processor.py: the two deleters of local attachments, run    *)
(* on one claim folder in any state.                                       *)
(***************************************************************************)
\* the states a claim folder can be in for an email_data with n paths
FolderStates(n) ==
    { NoFolder } \cup { [ exists |-> TRUE, files |-> f, strangers |-> x ] :
                          f \in SUBSET (1..n), x \in BOOLEAN }

\* a cleanup that would remove every path without asking whether it exists
\* and without a handler around the removal
cleanup_unguarded(folder, paths, locked) ==
    LET files == IF locked THEN folder.files ELSE { }
    IN  [ folder |-> IF paths > 0 /\ folder.exists /\ files = { } /\ ~folder.strangers
                     THEN NoFolder
                     ELSE [ folder EXCEPT !.files = files ],
          raised |-> locked \/ (\E path \in 1..paths : path \notin folder.files) ]

\* cleanup_local_files_after_mongodb_upload: remove every path that exists
\* (a removal that fails is counted and the loop goes on), then, when there
\* is a first path, remove its folder if it exists and is empty
cleanup_local_files_after_mongodb_upload(folder, paths, locked) ==
    LET files == IF locked THEN folder.files ELSE { }
    IN  [ folder |-> IF paths > 0 /\ folder.exists /\ files = { } /\ ~folder.strangers
                     THEN NoFolder
                     ELSE [ folder EXCEPT !.files = files ],
          raised |-> FALSE ]

\* cleanup_all_local_attachments for this folder: when it is listed and older
\* than the cutoff, remove the files in it and then the folder; a removal
\* that fails ends the work on the folder
cleanup_all_local_attachments(folder, old, locked) ==
    IF ~folder.exists \/ ~old
    THEN [ folder |-> folder, raised |-> FALSE ]
    ELSE IF locked /\ (folder.files # { } \/ folder.strangers)
    THEN [ folder |-> folder, raised |-> FALSE ]
    ELSE [ folder |-> NoFolder, raised |-> FALSE ]

Ran(op) ==
    [ op |-> op, raised |-> FALSE,
      runs |-> IF cleanup_log.op = op /\ cleanup_log.runs < MaxPaths
               THEN cleanup_log.runs + 1
               ELSE IF cleanup_log.op = op THEN cleanup_log.runs ELSE 1 ]

RunCleanup ==
    /\ pc = "cleanup"
    /\ LET done == cleanup_local_files_after_mongodb_upload(
                       claim_folder, cleanup_input.paths, cleanup_input.locked)
       IN  /\ claim_folder' = done.folder
           /\ cleanup_log' = [ Ran("cleanup") EXCEPT !.raised = done.raised ]
    /\ UNCHANGED << cleanup_input, asm_vars, cls_vars, store_vars, loop_vars >>

RunSweep ==
    /\ pc = "cleanup"
    /\ LET done == cleanup_all_local_attachments(
                       claim_folder, cleanup_input.old, cleanup_input.locked)
       IN  /\ claim_folder' = done.folder
           /\ cleanup_log' = [ Ran("sweep") EXCEPT !.raised = done.raised ]
    /\ UNCHANGED << cleanup_input, asm_vars, cls_vars, store_vars, loop_vars >>

\* someone else removes a file of the folder, or the empty folder
RemovedElsewhere ==
    /\ pc = "cleanup"
    /\ claim_folder.exists
    /\ \/ \E path \in claim_folder.files :
            claim_folder' = [ claim_folder EXCEPT !.files = @ \ { path } ]
       \/ /\ claim_folder.files = { } /\ ~claim_folder.strangers
          /\ claim_folder' = NoFolder
    /\ cleanup_log' = NoCleanup
    /\ UNCHANGED << cleanup_input, asm_vars, cls_vars, store_vars, loop_vars >>

CleanupInit ==
    /\ cleanup_input \in [ paths : 0..MaxPaths, locked : BOOLEAN, old : BOOLEAN ]
    /\ claim_folder \in FolderStates(cleanup_input.paths)
    /\ cleanup_log = NoCleanup
    /\ StoreIdle
    /\ pc = "cleanup"
    /\ asm_reply = << >>
    /\ asm_attachment_count = 0
    /\ asm_content = << >>
    /\ asm_result = NoResult
    /\ cls_call = "ok"
    /\ cls_reply = << >>
    /\ cls_subject = << >>
    /\ cls_content = << >>
    /\ cls_result = NoFilterResult
    /\ mailbox = 0
    /\ mail_tracking = << >>
    /\ fulfillment = { }
    /\ email_queue = << >>
    /\ claim_count = 0
    /\ handled = NoHandled
    /\ rejected = { }
    /\ fetched = { }
    /\ batch_failed = FALSE
    /\ settled = FALSE
    /\ current_mail_count = 0
    /\ stored_mail_count = 0
    /\ fetch_i = 1
    /\ emails_added = 0
    /\ faults = 0
    /\ bootstraps = 0
    /\ io = NoIo
    /\ startup = NoStartup
    /\ late = 0

CleanupNext ==
    \/ RunCleanup
    \/ RunSweep
    \/ RemovedElsewhere

SpecCleanup == CleanupInit /\ [][CleanupNext]_vars

(***************************************************************************)
(* The mailbox cursor over poll cycles.                                    *)
(***************************************************************************)
\* C1: over any poll cycles, failures of the count read and of the cursor
\* store included, the mail_count of the latest cursor record never decreases.
C1_CursorNonDecreasing ==
    [][ mail_tracking # << >> /\ mail_tracking' # << >>
          => mail_tracking'[1] >= mail_tracking[1] ]_vars

\* C2: the first-run branch is taken at most once in a run of the loop.
C2_BootstrapAtMostOnce == bootstraps <= 1

\* C3: no sequence id is fetched twice, and when the cursor moves from one
\* value to a higher one every id in between has been fetched (and so was
\* enqueued or turned down by the filter).
C3_NoRefetchNoSkip ==
    [][ /\ claim_count' > claim_count => fetch_i \notin fetched
        /\ mail_tracking # << >> /\ mail_tracking' # << >>
             /\ mail_tracking'[1] > mail_tracking[1]
             => \A i \in (mail_tracking[1] + 1)..mail_tracking'[1] : i \in fetched' ]_vars

\* C4: a batch in which a fetch failed leaves the cursor where it was, so the
\* batch is fetched again on a later cycle.
C4_FailedBatchKeepsCursor ==
    [][ pc = "fetch" /\ pc' # "fetch" /\ batch_failed
          => mail_tracking' = mail_tracking ]_vars

C6_UnreachableWritesNothing ==
    [][ io'.count_read = "failed"
          => /\ pc' \notin { "fetch", "process" }
             /\ email_queue' = email_queue
             /\ mail_tracking' = mail_tracking ]_vars

\* C7: while the inbox keeps the size the cursor has reached, no step adds
\* an entry to the queue.
C7_SettledAddsNothing ==
    [][ settled => Len(email_queue') <= Len(email_queue) ]_vars

(***************************************************************************)
(* The queue processor.                                                    *)
(***************************************************************************)
\* C8: an email_data whose sender the directory reports as not registered is
\* never assessed, and db.fulfillment never holds a record for its claim id.
C8_UnregisteredNoRecord ==
    /\ handled.lookup = "unregistered"
         => ~handled.assessed /\ handled.outcome = "unregistered"
    /\ \A c \in rejected : \A r \in fulfillment : r.claim_id # c

\* a sender was turned away and told so while the store holds the record of
\* an earlier claim
C8_Witness ==
    /\ handled.lookup = "unregistered"
    /\ handled.emails = 1
    /\ handled.claim_id \in rejected
    /\ fulfillment # { }

\* C9: every email_data that ends rejected for registration, pending or
\* completed has had exactly one email sent to the customer.
C9_ExactlyOneEmail ==
    handled.outcome \in { "unregistered", "pending", "completed" }
      => handled.emails = 1

(***************************************************************************)
(* parse_fulfillment_response.                                             *)
(***************************************************************************)
\* C10: a reply without the FULFILLMENT_STATUS marker is assessed PENDING,
\* whatever the attachment count.
C10_NoMarkerIsPending ==
    asm_result.status # "none" /\ StatusMatch(asm_reply) = "none"
      => asm_result.status = "PENDING"

\* C11: when the satisfied items computed for a reply number at least four
\* and its missing-items text is empty or the default placeholder, the status
\* returned is COMPLETED whatever status the reply states.
C11_FailsafeOverride ==
    asm_result.status # "none"
      => LET missing == MissingItemsOf(asm_reply)
             satisfied == identify_satisfied_requirements(
                              [ content |-> asm_content,
                                attachment_count |-> asm_attachment_count ], missing)
         IN  /\ Len(satisfied) >= FAILSAFE_MIN_SATISFIED
             /\ missing = << >> \/ missing = DEFAULT_MISSING
             => asm_result.status = "COMPLETED"

\* a reply that states PENDING and lists nothing under MISSING_ITEMS has been
\* returned as COMPLETED
C11_Witness ==
    /\ asm_result.status = "COMPLETED"
    /\ StatusMatch(asm_reply) = "PENDING"
    /\ HasMissingMatch(asm_reply)
    /\ MissingItemsOf(asm_reply) = << >>

\* C12: when the body of the email holds a monetary pattern, the claim-amount
\* item is among the satisfied items, also when the missing-items text
\* mentions an amount keyword.
C12_MonetaryBodySatisfiesAmount ==
    asm_result.status = "PENDING" /\ has_monetary_value(Lower(asm_content))
      => \E k \in 1..Len(asm_result.satisfied_items) :
           asm_result.satisfied_items[k] = "Claim amount specified"

(***************************************************************************)
(* filter_email_with_llm.                                                  *)
(***************************************************************************)
\* C13: whatever the backend does (the call raises, the reply is malformed),
\* the result returned has is_insurance, confidence, reasoning and category.
C13_FilterResultWellFormed ==
    cls_result.is_insurance # "none" => cls_result.keys = RESULT_KEYS

\* C14: when the reply cannot be parsed, because the {...} span is malformed
\* or because there is no such span, the result is that of the keyword check:
\* insurance exactly when at least two of the keywords occur in subject or
\* body, confidence 30.
C14_ParseFailureUsesKeywordCheck ==
    /\ cls_result.is_insurance # "none"
    /\ cls_call = "ok"
    /\ ~HasJsonSpan(cls_reply) \/ ~JsonValid(JsonSpan(cls_reply))
    => /\ cls_result.confidence = FALLBACK_CONFIDENCE
       /\ cls_result.is_insurance = "True"
            <=> keyword_count([ subject |-> cls_subject, content |-> cls_content ])
                  >= MIN_KEYWORDS

(***************************************************************************)
(* The work queue.                                                         *)
(***************************************************************************)
\* C15: when the handling of one record raises, the queue processor goes on
\* with the records behind it in the same invocation.
C15_ErrorThenNextRecord ==
    [][ pc = "process" /\ email_queue' # email_queue
          /\ handled'.outcome = "error" /\ email_queue' # << >>
          => pc' = "process" ]_vars

\* C16: when process_email_queue returns to the poll loop the queue is empty.
C16_ReturnsWithEmptyQueue ==
    [][ pc = "process" /\ pc' \notin { "process", "stopped" } => email_queue' = << >> ]_vars

\* C17: every email_data put on the queue is taken off it again (and, claim
\* ids being fresh, by no more than one dequeue).
C17_EveryRecordConsumed ==
    \A c \in 1..MaxClaims : InQueue(c) ~> (~InQueue(c) \/ Exhausted \/ pc = "stopped")

\* C18: within a cycle the messages are fetched and put on the queue in
\* ascending sequence-id order, and the processor takes the records in the
\* order they were put (claim ids are handed out in fetch order, so the queue
\* holds them ascending and the record taken is the oldest one).
C18_FetchOrderAndFifo ==
    [][ /\ \A j, k \in 1..Len(email_queue') :
             j < k => email_queue'[j].claim_id < email_queue'[k].claim_id
        /\ pc = "fetch" /\ pc' = "fetch"
             => fetch_i' >= fetch_i /\ (mailbox' = mailbox => fetch_i' > fetch_i)
        /\ pc' = "fetch"
             => /\ emails_added' <= Len(email_queue')
                /\ \A j, k \in (Len(email_queue') - emails_added' + 1)..Len(email_queue') :
                     j < k => email_queue'[j].email_id < email_queue'[k].email_id
        /\ Len(email_queue') > Len(email_queue)
             => /\ email_queue'[Len(email_queue')].email_id = fetch_i
                /\ fetch_i' = fetch_i + 1
        /\ Len(email_queue') < Len(email_queue)
             => /\ handled'.claim_id = email_queue[1].claim_id
                /\ \A k \in 1..Len(email_queue') :
                     handled'.claim_id < email_queue'[k].claim_id ]_vars

\* two records of one batch were queued, the first has been handled and the
\* second is still waiting
C18_Witness ==
    /\ pc = "process"
    /\ Len(email_queue) >= 1
    /\ handled.outcome \notin { "none", "filtered" }
    /\ handled.claim_id < email_queue[1].claim_id

\* C19: a failure for one id does not end the batch: from the failure on, the
\* loop still visits every remaining id up to the current count, and each id
\* whose fetch succeeds is classified and then queued or turned down.
C19_FailureKeepsBatchGoing ==
    [][ pc = "fetch" /\ fetch_i <= current_mail_count /\ batch_failed' /\ mailbox' = mailbox
          => /\ pc' = "fetch"
             /\ fetch_i' = fetch_i + 1
             /\ claim_count' # claim_count
                  => /\ fetch_i \in fetched'
                     /\ \/ /\ Len(email_queue') = Len(email_queue) + 1
                           /\ email_queue'[Len(email_queue')].email_id = fetch_i
                        \/ /\ email_queue' = email_queue
                           /\ handled'.outcome = "filtered"
                           /\ handled'.claim_id = claim_count' ]_vars

\* the fetch of an earlier id of the batch failed, and the last id of the
\* batch was fetched and queued all the same
C19_Witness ==
    /\ pc = "fetch"
    /\ batch_failed
    /\ fetch_i > current_mail_count
    /\ email_queue # << >>
    /\ email_queue[Len(email_queue)].email_id = current_mail_count
    /\ emails_added = 1

\* C20: a fetched message is on the work queue exactly when the is_insurance
\* of its classifier result is true: every queued record carries a result
\* whose is_insurance is true, and no message turned down has one.
C20_QueuedIffRelevant ==
    /\ \A k \in 1..Len(email_queue) : email_queue[k].llm_filter_result = "True"
    /\ handled.outcome = "filtered" => handled.llm_filter_result # "True"

(***************************************************************************)
(* Local storage and the fulfillment store.                                *)
(***************************************************************************)
\* C21: once the filter has turned a message down, none of its attachment
\* files and no claim folder of its claim id are left, whatever the number of
\* attachments.
C21_FilteredLeavesNothing ==
    handled.outcome = "filtered" => ~handled.folder /\ handled.files = 0

\* C22: the lookup fails closed: a 404, a 200 whose body does not say
\* success, any other status and any exception of the request all make the
\* sender unregistered, and the record takes the rejection branch.
C22_LookupFailsClosed ==
    /\ handled.answer # NoAnswer
    /\ \/ handled.answer.raises
       \/ handled.answer.status_code # HTTP_OK
       \/ handled.answer.status # "success"
    => /\ handled.lookup = "unregistered"
       /\ handled.outcome = "unregistered"
       /\ ~handled.assessed

\* the request raised and the sender was turned away
C22_Witness ==
    /\ handled.answer.raises
    /\ handled.outcome = "unregistered"
    /\ handled.claim_id \in rejected

\* the fulfillment record of claim c with the given status is in the store
Stored(c, fulfillment_status) ==
    \E r \in fulfillment : r.claim_id = c /\ r.fulfillment_status = fulfillment_status

\* C23: on the PENDING path the record is saved as pending and then the mail
\* is sent; the call reports success exactly when both succeeded; when the
\* mail fails after the save the call reports failure and the record is still
\* there, pending.  No step of the engine removes or rewrites a record.
C23_PendingSaveThenMail ==
    /\ [](handled.status = "PENDING"
            => /\ handled.success = "True"
                    <=> Stored(handled.claim_id, "pending") /\ handled.emails = 1
               /\ handled.emails = 1 => Stored(handled.claim_id, "pending")
               /\ handled.outcome = "pending" /\ handled.emails = 0
                    => handled.success = "False" /\ Stored(handled.claim_id, "pending")
               /\ \A r \in fulfillment :
                    r.claim_id = handled.claim_id => r.fulfillment_status = "pending")
    /\ [][fulfillment \subseteq fulfillment']_vars

\* the record was saved as pending, the mail failed, the call reported
\* failure
C23_Witness ==
    /\ handled.status = "PENDING"
    /\ handled.success = "False"
    /\ handled.emails = 0
    /\ Stored(handled.claim_id, "pending")

\* C24: no local attachment file that was not archived is deleted: when the
\* archive fails, as a whole or for one attachment, the record is saved as
\* completed without archive references and the files that were not archived
\* are still in the claim folder.
C24_UnarchivedFilesKept ==
    handled.outcome = "completed"
      => /\ handled.files >= handled.attachment_count - handled.uploaded.attachments
         /\ handled.uploaded.attachments < handled.attachment_count
              => \A r \in fulfillment :
                   r.claim_id = handled.claim_id => r.archive = "absent"

\* C25: when the archive step reports success (upload_complete_email returns
\* a result), the archive holds the mail content blob and one blob for every
\* local attachment, and the completed record refers to all of them.
C25_ArchiveHoldsEveryBlob ==
    handled.uploaded.result
      => /\ handled.uploaded.mail_content
         /\ handled.uploaded.attachments = handled.attachment_count
         /\ \A r \in fulfillment :
              r.claim_id = handled.claim_id => r.archive = "all"

\* C26: on the COMPLETED path the local files are deleted only after the
\* archive and then the record write have both succeeded; when either failed
\* the files stay.
C26_CleanupAfterArchiveAndSave ==
    handled.status = "COMPLETED" /\ handled.files < handled.attachment_count
      => /\ handled.uploaded.result
         /\ handled.uploaded.mail_content
         /\ handled.uploaded.attachments = handled.attachment_count
         /\ Stored(handled.claim_id, "completed")

\* C27: the status of a fulfillment document only moves from pending to
\* completed or to failed; a document is created as completed or as pending;
\* a completed document keeps its status under every request.
C27_StatusMovesForwardOnly ==
    [][ \A k \in 1..Len(db_fulfillment') :
          IF k <= Len(db_fulfillment)
          THEN \/ db_fulfillment'[k].fulfillment_status = db_fulfillment[k].fulfillment_status
               \/ /\ db_fulfillment[k].fulfillment_status = "pending"
                  /\ db_fulfillment'[k].fulfillment_status \in { "completed", "failed" }
          ELSE db_fulfillment'[k].fulfillment_status \in { "pending", "completed" } ]_vars

\* C28: the collection never holds two documents with one claim_id: an
\* add-fulfillment request for a claim_id that is there already fails and
\* leaves the collection as it was.
C28_OneRecordPerClaim ==
    /\ \A j, k \in 1..Len(db_fulfillment) :
         j # k => db_fulfillment[j].claim_id # db_fulfillment[k].claim_id
    /\ api_response.request = "add" /\ api_response.status_code = HTTP_OK
         => \A k \in 1..(Len(db_fulfillment) - 1) :
              db_fulfillment[k].claim_id # db_fulfillment[Len(db_fulfillment)].claim_id

\* C29: when the write of the fulfillment record fails, on the PENDING or on
\* the COMPLETED path, process_email_fulfillment does not report success.
C29_FailedWriteIsFailure ==
    /\ handled.status \in { "PENDING", "COMPLETED" }
    /\ \A r \in fulfillment : r.claim_id # handled.claim_id
    => /\ handled.success = "False"
       /\ handled.outcome = "failed"
       /\ handled.emails = 0

\* the archive took every blob, the write of the completed record failed and
\* the call reported failure
C29_Witness ==
    /\ handled.status = "COMPLETED"
    /\ handled.uploaded.result
    /\ handled.uploaded.mail_content
    /\ \A r \in fulfillment : r.claim_id # handled.claim_id
    /\ handled.success = "False"

\* C30: the cleanup of the engine and the maintenance sweep do not raise,
\* whatever is left of the files and the folder, and running either once
\* more right after it has run changes nothing.
C30_CleanupIdempotent ==
    /\ ~cleanup_log.raised
    /\ cleanup_log.op = "cleanup"
         => /\ ~cleanup_local_files_after_mongodb_upload(
                   claim_folder, cleanup_input.paths, cleanup_input.locked).raised
            /\ cleanup_local_files_after_mongodb_upload(
                   claim_folder, cleanup_input.paths, cleanup_input.locked).folder
                 = claim_folder
    /\ cleanup_log.op = "sweep"
         => /\ ~cleanup_all_local_attachments(
                   claim_folder, cleanup_input.old, cleanup_input.locked).raised
            /\ cleanup_all_local_attachments(
                   claim_folder, cleanup_input.old, cleanup_input.locked).folder
                 = claim_folder

\* the engine's cleanup has run twice in a row for an email_data with
\* attachments whose folder is gone
C30_Witness ==
    /\ cleanup_log.op = "cleanup"
    /\ cleanup_log.runs >= 2
    /\ cleanup_input.paths > 0
    /\ ~claim_folder.exists

\* C31: the stop signal halts the loop only between records: the step that
\* stops the loop takes no record off the queue, and no record is left
\* abandoned between being dequeued and its terminal handling.
C31_StopAfterRecord ==
    [][ pc' = "stopped" => email_queue' = email_queue /\ handled' = handled ]_vars

\* C32: when the store or the mail server cannot be reached at the start,
\* monitor_mails returns False before the loop and nothing of the loop
\* happens: no count is read, no mail fetched, the cursor is not written and
\* no record is queued or processed.
C32_NoLoopWithoutConnections ==
    [][ startup'.database = "failed" \/ startup'.mail_server = "failed"
          => /\ ReturnedAtStart'
             /\ UNCHANGED << mail_tracking, email_queue, fulfillment, fetched, handled,
                             rejected, claim_count, bootstraps, io, current_mail_count,
                             stored_mail_count, fetch_i, emails_added >> ]_vars

\* the store answered, the mail server did not, and monitor_mails returned
\* with new mail waiting behind the cursor
C32_Witness ==
    /\ pc = "no_mail_server"
    /\ startup.database = "ok"
    /\ startup.mail_server = "failed"
    /\ mail_tracking # << >>
    /\ mailbox > mail_tracking[1]

\* item is one of the satisfied items
Among(item, satisfied_items) ==
    \E k \in 1..Len(satisfied_items) : satisfied_items[k] = item

\* C33: the satisfied items computed by identify_satisfied_requirements always
\* hold the sender-email item; they hold a documents item exactly when
\* attachment_count > 0, and then it is the partial one exactly when a proof
\* keyword appears in the missing-items text.  The items returned for a
\* PENDING assessment are these items.
C33_SenderAlwaysDocsIffAttachments ==
    asm_result.status # "none"
      => LET missing == MissingItemsOf(asm_reply)
             satisfied == identify_satisfied_requirements(
                              [ content |-> asm_content,
                                attachment_count |-> asm_attachment_count ], missing)
             full == Among("Supporting documents provided", satisfied)
             some == Among("Some documents provided", satisfied)
         IN  /\ Among("User email address provided", satisfied)
             /\ (full \/ some) <=> asm_attachment_count > 0
             /\ ~(full /\ some)
             /\ some <=> /\ asm_attachment_count > 0
                         /\ AnyKeywordIn(proof_keywords, Lower(missing))
             /\ asm_result.status = "PENDING" => asm_result.satisfied_items = satisfied

\* a reply that asks for a receipt was assessed for an email with an
\* attachment, and the partial documents item was credited
C33_Witness ==
    /\ asm_result.status = "PENDING"
    /\ asm_attachment_count > 0
    /\ AnyKeywordIn(proof_keywords, Lower(asm_result.missing_items))
    /\ Among("Some documents provided", asm_result.satisfied_items)
    /\ Among("User email address provided", asm_result.satisfied_items)

\* C34: for an email without attachments at most three items are satisfied,
\* the failsafe override does not fire, and the status returned is COMPLETED
\* only when the reply itself states FULFILLMENT_STATUS: COMPLETED.
C34_NoAttachmentNoOverride ==
    asm_result.status # "none" /\ asm_attachment_count = 0
      => LET missing == MissingItemsOf(asm_reply)
             satisfied == identify_satisfied_requirements(
                              [ content |-> asm_content,
                                attachment_count |-> asm_attachment_count ], missing)
         IN  /\ Len(satisfied) <= 3
             /\ ~Failsafe(satisfied, missing)
             /\ asm_result.status = "COMPLETED" => StatusMatch(asm_reply) = "COMPLETED"

\* an email without attachments, a reply that states PENDING and lists
\* nothing as missing: three items satisfied, and the result stays PENDING
C34_Witness ==
    /\ asm_attachment_count = 0
    /\ StatusMatch(asm_reply) = "PENDING"
    /\ MissingItemsOf(asm_reply) \in { << >>, DEFAULT_MISSING }
    /\ asm_result.status = "PENDING"
    /\ Len(asm_result.satisfied_items) = 3

\* C35: the queue processor is entered only at the end of a fetch that
\* queued at least one record; a cycle that queues nothing (no new mail, a
\* first run, or a fetch whose mails were all turned down or failed) leaves
\* the queue as it is, and records are taken off the queue only while the
\* processor runs.
C35_ProcessorOnlyAfterEnqueue ==
    [][ /\ pc # "process" /\ pc' = "process" => pc = "fetch" /\ emails_added > 0
        /\ pc = "fetch" /\ pc' # "fetch" /\ emails_added = 0
             => pc' = "sleep" /\ email_queue' = email_queue
        /\ pc = "poll" /\ pc' # "fetch" => email_queue' = email_queue
        /\ email_queue' # email_queue /\ pc # "process"
             => pc = "fetch" /\ Len(email_queue') = Len(email_queue) + 1 ]_vars

\* a record left on the queue by an invocation that broke off is still
\* there at the end of a later cycle that found no new mail
C35_Witness ==
    /\ pc = "sleep"
    /\ email_queue # << >>
    /\ handled.outcome = "error"
    /\ io.count_read # "none"
    /\ io.store_write = "none"

\* C36: when the backend gave no reply for a registered sender's record,
\* the engine returns failure, writes no record and sends no mail, and the
\* record, off the queue, is never queued again: a claim id that was issued
\* and has left the queue does not come back.
C36_NoReplyIsFinalFailure ==
    [][ /\ handled'.assessed /\ handled'.status = "None"
             => /\ handled'.lookup = "registered"
                /\ handled'.success = "False"
                /\ handled'.emails = 0
                /\ handled'.outcome = "failed"
                /\ \A r \in fulfillment' : r.claim_id # handled'.claim_id
                /\ \A k \in 1..Len(email_queue') :
                     email_queue'[k].claim_id # handled'.claim_id
        /\ \A c \in 1..MaxClaims :
             c <= claim_count /\ ~InQueue(c) => ~InQueue(c)' ]_vars

\* the backend gave no reply for a registered sender's record, the call
\* failed, and the loop is in a later cycle with an empty queue
C36_Witness ==
    /\ handled.assessed
    /\ handled.status = "None"
    /\ handled.lookup = "registered"
    /\ handled.success = "False"
    /\ \A r \in fulfillment : r.claim_id # handled.claim_id
    /\ pc = "poll"
    /\ email_queue = << >>

\* C37: the cursor written at the end of a cycle with new mail is the count
\* read at the start of the cycle; a message that arrived while the cycle
\* was fetching or processing is not fetched in that cycle, is not passed by
\* the cursor without having been fetched, and the next cycle fetches it.
C37_LateArrivalWaitsOneCycle ==
    [][ /\ pc = "fetch" /\ mail_tracking' # mail_tracking
             => mail_tracking' = << current_mail_count >>
        /\ pc = "fetch" => \A id \in fetched' \ fetched : id <= current_mail_count
        /\ late # 0 /\ late' = 0 /\ mailbox' >= mailbox => late \in fetched'
        /\ late # 0 /\ pc = "poll" /\ pc' # "poll"
             => pc' = "fetch" /\ current_mail_count' >= late ]_vars

\* C38: on the PENDING path nothing is uploaded to the archive and no local
\* file is deleted: after process_email_fulfillment the claim folder and
\* every attachment file are where they were, and the record written
\* carries no archive reference.
C38_PendingTouchesNoFile ==
    handled.assessed /\ handled.status = "PENDING"
      => /\ handled.uploaded = NoUpload
         /\ handled.folder
         /\ handled.files = handled.attachment_count
         /\ \A r \in fulfillment :
              r.claim_id = handled.claim_id => r.archive = "absent"

\* a claim with an attachment was assessed PENDING, saved and answered, and
\* its file is still in its folder
C38_Witness ==
    /\ handled.assessed
    /\ handled.status = "PENDING"
    /\ handled.attachment_count > 0
    /\ handled.success = "True"
    /\ handled.emails = 1
    /\ handled.folder
    /\ handled.files = handled.attachment_count

\* C39: for a dequeued record whose sender is not registered, the claim
\* folder and every attachment file stay in place, whether the rejection
\* mail went out or not.
C39_RejectedKeepsFiles ==
    handled.outcome = "unregistered"
      => /\ handled.folder
         /\ handled.files = handled.attachment_count
         /\ handled.emails \in { 0, 1 }

\* a sender who is not registered was told so, and the attachment of the
\* mail is still in its claim folder
C39_Witness ==
    /\ handled.outcome = "unregistered"
    /\ handled.attachment_count > 0
    /\ handled.emails = 1
    /\ handled.folder
    /\ handled.files = handled.attachment_count

=============================================================================
